---- MODULE Spec2Model ----
(***************************************************************************)
(* A model of pyprojectutils: the Project model and its load() pipeline,   *)
(* project discovery (get_projects and the three aggregation queries) and  *)
(* the Version helper (bump).                                              *)
(*                                                                         *)
(* Python values are modelled as follows.  A string is a TLA+ string; the  *)
(* Python value None held by a string-valued attribute is the reserved     *)
(* string PyNone (which differs from the string "None" that _get_scm       *)
(* returns).  An optional non-string value is a sequence of length <= 1:   *)
(* <<>> is None and <<v>> is v.  A dict is a function.                     *)
(***************************************************************************)
EXTENDS Integers, Sequences, FiniteSets, TLC

VARIABLES
    fs,         \* the project directory on disk (SpecProject, SpecDeps)
    project,    \* the Project object
    result,     \* what the last load() of the Project returned, None before
    deps,       \* what the last get_dependencies() returned, None before
    tree,       \* the directory that get_projects scans (SpecDiscovery)
    call,       \* the last discovery call and its arguments
    returned,   \* what that call returned
    version,    \* the Version object (SpecVersion)
    bumped,     \* the arguments of the last bump(), None before
    raised      \* whether the last bump() raised

projectVars == <<fs, project, result, deps>>
discoveryVars == <<tree, call, returned>>
versionVars == <<version, bumped, raised>>
vars == <<projectVars, discoveryVars, versionVars>>

PyNone == "<None>"
None == <<>>
Some(v) == <<v>>

(***************************************************************************)
(* The filesystem: one project directory.                                  *)
(*   exists      whether the root path exists                              *)
(*   files       the entries present under the root                        *)
(*   ini         project.ini: section name -> (key -> value)               *)
(*   version_txt VERSION.txt: its raw content, a sequence of chunks        *)
(*   dirty       whether `git status --porcelain` prints anything          *)
(*   manifests   the dependency manifests present: relative path ->        *)
(*               (environment -> packages)                                 *)
(***************************************************************************)
ProjectName == "alpha"

Whitespace == {" ", "\n"}

EmptyIni == << >>

NoDir ==
    [exists |-> FALSE, files |-> {}, ini |-> EmptyIni, version_txt |-> <<>>,
     dirty |-> FALSE, manifests |-> << >>]

EmptyDir == [NoDir EXCEPT !.exists = TRUE]

IniSamples ==
    { [project |-> [status |-> "active", type |-> "app"]],
      [project |-> [title |-> "Alpha", status |-> "active"],
       client |-> [code |-> "ACME", name |-> "Acme Inc"]],
      [client |-> [name |-> "Acme Inc"], business |-> [code |-> "PTL"]],
      [business |-> [name |-> "Pleasant Tents"]],
      [project |-> [type |-> "app"], business |-> [code |-> "PTL"]] }

VersionSamples ==
    { <<"2.0.0", "\n">>, <<" ", "\n">> }

\* what `du -hs root | awk '{print $1}'` prints
DuOutput == <<"4.0K", "\n">>

ScmMarkers == {".git", ".hg", "trunk"}

\* os.path.exists(os.path.join(root, name))
PathExists(d, name) == d.exists /\ name \in d.files

(***************************************************************************)
(* str.strip(): drop the leading and the trailing whitespace.              *)
(***************************************************************************)
RECURSIVE LStrip(_)
LStrip(s) ==
    IF s # <<>> /\ Head(s) \in Whitespace THEN LStrip(Tail(s)) ELSE s

RECURSIVE RStrip(_)
RStrip(s) ==
    IF s # <<>> /\ s[Len(s)] \in Whitespace
    THEN RStrip(SubSeq(s, 1, Len(s) - 1)) ELSE s

RECURSIVE Join(_)
Join(s) == IF s = <<>> THEN "" ELSE Head(s) \o Join(Tail(s))

Strip(s) == Join(RStrip(LStrip(s)))

(***************************************************************************)
(* Project.__init__                                                        *)
(***************************************************************************)
Project__init__(name, d) ==
    [config_exists |-> PathExists(d, "project.ini"),
     description |-> PyNone,
     disk |-> "TBD",
     is_dirty |-> None,
     is_loaded |-> FALSE,
     name |-> name,
     org |-> "Unknown",
     scm |-> PyNone,
     status |-> "unknown",
     title |-> PyNone,
     type |-> "project",
     version |-> "0.1.0-d",
     client |-> None,
     business |-> None]

(***************************************************************************)
(* Config._load_section: attaches the section to the object as an          *)
(* attribute bag named after the section.                                  *)
(***************************************************************************)
Config_load_section(self, name, values) ==
    [self EXCEPT ![name] = Some(values)]

\* Project._load_section: the keys of the project section become attributes
\* of the Project itself.
_load_section(self, name, values) ==
    IF name = "project"
    THEN [k \in DOMAIN self |->
            IF k \in DOMAIN values THEN values[k] ELSE self[k]]
    ELSE Config_load_section(self, name, values)

RECURSIVE LoadSections(_, _, _)
LoadSections(self, ini, names) ==
    IF names = {} THEN self
    ELSE LET n == CHOOSE x \in names : TRUE
         IN LoadSections(_load_section(self, n, ini[n]), ini, names \ {n})

(***************************************************************************)
(* Config.load: reads the file given at construction, hands every section  *)
(* to _load_section and marks the object loaded.  A missing file leaves    *)
(* the defaults in place and is not an error.                              *)
(***************************************************************************)
Config_load(self, d) ==
    IF PathExists(d, "project.ini")
    THEN [LoadSections(self, d.ini, DOMAIN d.ini) EXCEPT !.is_loaded = TRUE]
    ELSE [self EXCEPT !.is_loaded = TRUE]

\* mutant of _get_org: the business section is looked up before the client
_get_org_BusinessFirst(self) ==
    IF self.business # None
    THEN IF "code" \in DOMAIN self.business[1]
         THEN self.business[1].code ELSE "Internal"
    ELSE IF self.client # None
    THEN IF "code" \in DOMAIN self.client[1]
         THEN self.client[1].code ELSE "Unidentified"
    ELSE "Unknown"

(***************************************************************************)
(* Project._get_org                                                        *)
(***************************************************************************)
_get_org(self) ==
    IF self.client # None
    THEN IF "code" \in DOMAIN self.client[1]
         THEN self.client[1].code ELSE "Unidentified"
    ELSE IF self.business # None
    THEN IF "code" \in DOMAIN self.business[1]
         THEN self.business[1].code ELSE "Internal"
    ELSE "Unknown"

(***************************************************************************)
(* Project._get_scm: returns <<label, self>>; only the git branch assigns  *)
(* is_dirty.  The exit status of the shell test is 0 for a clean tree.     *)
(***************************************************************************)
\* commands.getstatusoutput returns the wait status: exit code 1 is 256
GitStatus(d) == IF d.dirty THEN 256 ELSE 0

\* mutant of _get_scm: the hg, svn and None branches clear is_dirty
_get_scm_ClearsDirty(self, d) ==
    IF PathExists(d, ".git")
    THEN <<"git", [self EXCEPT !.is_dirty = Some(GitStatus(d) >= 1)]>>
    ELSE IF PathExists(d, ".hg")
    THEN <<"hg", [self EXCEPT !.is_dirty = Some(FALSE)]>>
    ELSE IF PathExists(d, "trunk")
    THEN <<"svn", [self EXCEPT !.is_dirty = Some(FALSE)]>>
    ELSE <<"None", [self EXCEPT !.is_dirty = Some(FALSE)]>>

_get_scm(self, d) ==
    IF PathExists(d, ".git")
    THEN <<"git", [self EXCEPT !.is_dirty = Some(GitStatus(d) >= 1)]>>
    ELSE IF PathExists(d, ".hg") THEN <<"hg", self>>
    ELSE IF PathExists(d, "trunk") THEN <<"svn", self>>
    ELSE <<"None", self>>

\* mutant of _get_version: no default when VERSION.txt is missing
_get_version_NoDefault(self, d) ==
    IF PathExists(d, "VERSION.txt") THEN Strip(d.version_txt) ELSE ""

(***************************************************************************)
(* Project._get_version                                                    *)
(***************************************************************************)
_get_version(self, d) ==
    IF PathExists(d, "VERSION.txt") THEN Strip(d.version_txt) ELSE "0.1.0-d"

\* Project._get_disk
_get_disk(self, d) == Strip(DuOutput)

(***************************************************************************)
(* Project.load: returns <<returned value, self>>.                         *)
(***************************************************************************)
LoadBody(self, d, include_disk) ==
    LET s1 == Config_load(self, d)
        s2 == IF s1.title \in {PyNone, ""}
              THEN [s1 EXCEPT !.title = s1.name] ELSE s1
        s3 == [s2 EXCEPT !.org = _get_org(s2)]
        scm == _get_scm(s3, d)
        s4 == [scm[2] EXCEPT !.scm = scm[1]]
        s5 == [s4 EXCEPT !.version = _get_version(s4, d)]
        s6 == IF include_disk
              THEN [s5 EXCEPT !.disk = _get_disk(s5, d)] ELSE s5
    IN <<s6.is_loaded, s6>>

\* mutant of Project_load: the check of the root is missing
Project_load_NoRootCheck(self, d, include_disk) ==
    LoadBody(self, d, include_disk)

\* mutant of Project_load: config_exists is computed again by load()
Project_load_Refresh(self, d, include_disk) ==
    IF ~d.exists
    THEN <<FALSE, [self EXCEPT !.is_loaded = FALSE]>>
    ELSE LoadBody([self EXCEPT !.config_exists = PathExists(d, "project.ini")],
                  d, include_disk)

Project_load(self, d, include_disk) ==
    IF ~d.exists
    THEN <<FALSE, [self EXCEPT !.is_loaded = FALSE]>>
    ELSE LoadBody(self, d, include_disk)

(***************************************************************************)
(* constants.ENVIRONMENTS                                                  *)
(***************************************************************************)
ENVIRONMENTS ==
    <<"base", "control", "development", "testing", "staging", "live">>

\* the candidate manifest paths of get_dependencies, in probing order
locations ==
    <<"deploy/requirements/packages.ini", "requirements/packages.ini",
      "requirements.ini">>

NoPackages == [e \in {} |-> <<>>]

ManifestSamples ==
    { NoPackages,
      [base |-> <<"django">>, testing |-> <<"coverage", "tox">>],
      [base |-> <<"flask">>, live |-> <<"gunicorn">>] }

\* Project._file_exists for a manifest path
ManifestExists(d, loc) == d.exists /\ loc \in DOMAIN d.manifests

\* PackageConfig.get_packages(env): the packages the manifest lists for env
get_packages(manifest, env) ==
    IF env \in DOMAIN manifest THEN manifest[env] ELSE <<>>

\* the inner loop of get_dependencies: one (env, packages) pair per environment
EnvEntries(manifest) ==
    [i \in 1..Len(ENVIRONMENTS) |->
        <<ENVIRONMENTS[i], get_packages(manifest, ENVIRONMENTS[i])>>]

(***************************************************************************)
(* Project.get_dependencies: the loop over locations appends the entries   *)
(* of every manifest that exists; i is the index of the next location.     *)
(***************************************************************************)
RECURSIVE DependenciesFrom(_, _, _)
DependenciesFrom(d, i, a) ==
    IF i > Len(locations) THEN a
    ELSE IF ManifestExists(d, locations[i])
         THEN DependenciesFrom(d, i + 1,
                               a \o EnvEntries(d.manifests[locations[i]]))
         ELSE DependenciesFrom(d, i + 1, a)

get_dependencies(self, d) == DependenciesFrom(d, 1, <<>>)

(***************************************************************************)
(* Project discovery.  The scanned path holds entries by name; an entry is *)
(* absent, a plain file or a project directory.                            *)
(***************************************************************************)
Names == {"alpha", "beta", "gamma"}

NoEntry == [kind |-> "none", dir |-> NoDir]
FileEntry == [kind |-> "file", dir |-> NoDir]
DirEntry(d) == [kind |-> "dir", dir |-> d]

DirSamples ==
    {EmptyDir} \cup
    {[EmptyDir EXCEPT !.files = {"project.ini"}, !.ini = i] :
        i \in {j \in IniSamples : "project" \in DOMAIN j}}

\* os.listdir(path) returns the names in some order: every listing of them
Listings(t) ==
    LET present == {n \in Names : t[n].kind # "none"}
    IN {l \in [1..Cardinality(present) -> present] :
            \A i, j \in DOMAIN l : i # j => l[i] # l[j]}

\* os.path.isdir(os.path.join(path, project_name))
isdir(t, project_name) == t[project_name].kind = "dir"

InList(x, seq) == \E i \in DOMAIN seq : seq[i] = x

NoCriteria == << >>

NoCall == [op |-> "none"]

CriteriaSamples ==
    { NoCriteria,
      [status |-> "active"],
      [status |-> "active", type |-> "app"],
      [type |-> "project", org |-> "ACME"] }

\* the loop over criteria.items(): one append per criterion that matches
RECURSIVE AppendMatches(_, _, _, _)
AppendMatches(projects, p, criteria, fields) ==
    IF fields = {} THEN projects
    ELSE LET field == CHOOSE f \in fields : TRUE
             next == IF criteria[field] = p[field]
                     THEN Append(projects, p) ELSE projects
         IN AppendMatches(next, p, criteria, fields \ {field})

\* mutant of Visit: the visibility filter is missing
Visit_NoFilter(t, project_name, criteria, include_disk, show_all, names, projects) ==
    IF ~isdir(t, project_name) THEN projects
    ELSE IF InList(project_name, names) THEN projects
    ELSE LET p == Project_load(Project__init__(project_name,
                                               t[project_name].dir),
                               t[project_name].dir, include_disk)[2]
         IN IF DOMAIN criteria # {}
            THEN AppendMatches(projects, p, criteria, DOMAIN criteria)
            ELSE Append(projects, p)

\* the body of the loop of get_projects over the entries
Visit(t, project_name, criteria, include_disk, show_all, names, projects) ==
    IF ~isdir(t, project_name) THEN projects
    ELSE IF InList(project_name, names) THEN projects
    ELSE LET p == Project_load(Project__init__(project_name,
                                               t[project_name].dir),
                               t[project_name].dir, include_disk)[2]
         IN IF ~p.config_exists /\ ~show_all THEN projects
            ELSE IF DOMAIN criteria # {}
            THEN AppendMatches(projects, p, criteria, DOMAIN criteria)
            ELSE Append(projects, p)

RECURSIVE Scan(_, _, _, _, _, _, _)
Scan(t, entries, criteria, include_disk, show_all, names, projects) ==
    IF entries = <<>> THEN projects
    ELSE Scan(t, Tail(entries), criteria, include_disk, show_all, names,
              Visit(t, Head(entries), criteria, include_disk, show_all,
                    names, projects))

(***************************************************************************)
(* get_projects; entries is what os.listdir(path) returned.  The list      *)
(* names is created empty and nothing is ever added to it.                 *)
(***************************************************************************)
get_projects(t, entries, criteria, include_disk, show_all) ==
    Scan(t, entries, criteria, include_disk, show_all, <<>>, <<>>)

(***************************************************************************)
(* sorted() on strings: Python compares them by code point, so upper case  *)
(* comes before lower case.  StringOrder lists the strings of the model in *)
(* that order.                                                             *)
(***************************************************************************)
StringOrder ==
    <<"ACME", "Internal", "PTL", "Unidentified", "Unknown", "active", "app",
      "closed", "project", "unknown">>

Rank(str) == CHOOSE i \in DOMAIN StringOrder : StringOrder[i] = str

StrLess(a, b) == Rank(a) < Rank(b)

RECURSIVE Insert(_, _)
Insert(x, seq) ==
    IF seq = <<>> THEN <<x>>
    ELSE IF StrLess(x, Head(seq)) THEN <<x>> \o seq
    ELSE <<Head(seq)>> \o Insert(x, Tail(seq))

RECURSIVE InsertAll(_)
InsertAll(seq) ==
    IF seq = <<>> THEN <<>>
    ELSE Insert(seq[Len(seq)], InsertAll(SubSeq(seq, 1, Len(seq) - 1)))

\* mutant of sorted: the list is returned in the order it was collected
sorted_Unsorted(seq) == seq

sorted(seq) == InsertAll(seq)

\* the loop `if p.<field> not in values: values.append(p.<field>)`
RECURSIVE Collect(_, _, _)
Collect(projects, field, values) ==
    IF projects = <<>> THEN values
    ELSE Collect(Tail(projects), field,
                 IF InList(Head(projects)[field], values) THEN values
                 ELSE Append(values, Head(projects)[field]))

get_project_clients(t, entries) ==
    sorted(Collect(get_projects(t, entries, NoCriteria, FALSE, FALSE),
                   "org", <<>>))

get_project_statuses(t, entries) ==
    sorted(Collect(get_projects(t, entries, NoCriteria, FALSE, FALSE),
                   "status", <<>>))

get_project_types(t, entries) ==
    sorted(Collect(get_projects(t, entries, NoCriteria, FALSE, FALSE),
                   "type", <<>>))

(***************************************************************************)
(* The Version helper.  A version string is a sequence of tokens: a number *)
(* Num(n), or a symbol Sym(s) that is ".", "-", "+" or an alphanumeric     *)
(* word.                                                                   *)
(***************************************************************************)
Num(n) == [k |-> "num", n |-> n]
Sym(str) == [k |-> str, n |-> 0]

IsNum(tok) == tok.k = "num"
\* a token of the class [0-9A-Za-z-]+
IsIdent(tok) == tok.k \notin {".", "+"}

\* [0-9A-Za-z-]+(\.[0-9A-Za-z-]+)*
IsLabel(x) ==
    /\ x # <<>>
    /\ \A i \in DOMAIN x : IsIdent(x[i]) \/ x[i] = Sym(".")
    /\ x[1] # Sym(".") /\ x[Len(x)] # Sym(".")
    /\ \A i \in 1..(Len(x) - 1) : ~(x[i] = Sym(".") /\ x[i + 1] = Sym("."))

\* the index of the first "+" of x, or Len(x) + 1
FirstPlus(x) ==
    IF \E i \in DOMAIN x : x[i] = Sym("+")
    THEN CHOOSE i \in DOMAIN x :
            x[i] = Sym("+") /\ \A j \in 1..(i - 1) : x[j] # Sym("+")
    ELSE Len(x) + 1

ParseError ==
    [ok |-> FALSE, major |-> 0, minor |-> 0, patch |-> 0,
     prerelease |-> <<>>, build |-> <<>>]

(***************************************************************************)
(* semver.parse_version_info: major.minor.patch, then an optional          *)
(* -prerelease, then an optional +build; ok is false where semver raises   *)
(* ValueError.  An absent label is <<>>.                                   *)
(***************************************************************************)
parse_version_info(str) ==
    IF ~(/\ Len(str) >= 5
         /\ IsNum(str[1]) /\ str[2] = Sym(".")
         /\ IsNum(str[3]) /\ str[4] = Sym(".")
         /\ IsNum(str[5]))
    THEN ParseError
    ELSE LET rest == SubSeq(str, 6, Len(str))
             numbers == [ok |-> TRUE, major |-> str[1].n, minor |-> str[3].n,
                         patch |-> str[5].n, prerelease |-> <<>>,
                         build |-> <<>>]
             plus == FirstPlus(rest)
             hasPre == rest # <<>> /\ rest[1] = Sym("-")
             hasBuild == plus <= Len(rest)
             pre == IF hasPre THEN SubSeq(rest, 2, plus - 1) ELSE <<>>
             bld == SubSeq(rest, plus + 1, Len(rest))
         IN IF rest = <<>> THEN numbers
            ELSE IF ~hasPre /\ plus # 1 THEN ParseError
            ELSE IF hasPre /\ ~IsLabel(pre) THEN ParseError
            ELSE IF hasBuild /\ ~IsLabel(bld) THEN ParseError
            ELSE [numbers EXCEPT !.prerelease = pre, !.build = bld]

\* semver.format_version(major, minor, patch)
format_version(major, minor, patch) ==
    <<Num(major), Sym("."), Num(minor), Sym("."), Num(patch)>>

\* semver.bump_major, bump_minor, bump_patch
bump_major(str) ==
    LET v == parse_version_info(str) IN format_version(v.major + 1, 0, 0)

bump_minor(str) ==
    LET v == parse_version_info(str)
    IN format_version(v.major, v.minor + 1, 0)

bump_patch(str) ==
    LET v == parse_version_info(str)
    IN format_version(v.major, v.minor, v.patch + 1)

\* Version.__init__
Version__init__(string) ==
    [_current |-> <<>>, _original |-> string,
     object |-> parse_version_info(string)]

(***************************************************************************)
(* Version.bump: returns <<raised, self>>.  _current is assigned before    *)
(* the result is parsed; when the parse raises, object keeps its value.    *)
(***************************************************************************)
Version_bump(self, major, minor, patch, status, build) ==
    LET c1 == IF major THEN bump_major(self._original)
              ELSE IF minor THEN bump_minor(self._original)
              ELSE IF patch THEN bump_patch(self._original)
              ELSE self._original
        c2 == IF status # <<>> THEN c1 \o <<Sym("-")>> \o status
              ELSE IF self.object.prerelease # <<>>
              THEN c1 \o <<Sym("-")>> \o self.object.prerelease
              ELSE c1
        c3 == IF build # <<>> THEN c2 \o <<Sym("+")>> \o build
              ELSE IF self.object.build # <<>>
              THEN c2 \o <<Sym("+")>> \o self.object.build
              ELSE c2
        parsed == parse_version_info(c3)
    IN IF parsed.ok
       THEN <<FALSE, [self EXCEPT !._current = c3, !.object = parsed]>>
       ELSE <<TRUE, [self EXCEPT !._current = c3]>>

\* Version.to_string
to_string(self) ==
    IF self._current # <<>> THEN self._current ELSE self._original

V123 == format_version(1, 2, 3)

InitialVersions ==
    { V123,
      V123 \o <<Sym("-"), Sym("beta")>>,
      V123 \o <<Sym("+"), Sym("b1")>>,
      V123 \o <<Sym("-"), Sym("beta"), Sym("+"), Sym("b1")>> }

StatusSamples == { <<>>, <<Sym("rc")>> }
BuildSamples == { <<>>, <<Sym("b2")>> }

\* the longest version string, in tokens, that bump() is asked to build
MaxLen == 11

(***************************************************************************)
(* Operations on the directory.                                            *)
(***************************************************************************)
\* rm -rf root
RemoveRoot ==
    /\ fs.exists
    /\ fs' = NoDir
    /\ UNCHANGED <<project, result, deps, discoveryVars, versionVars>>

\* mkdir root
CreateRoot ==
    /\ ~fs.exists
    /\ fs' = EmptyDir
    /\ UNCHANGED <<project, result, deps, discoveryVars, versionVars>>

WriteIni ==
    /\ fs.exists
    /\ \E i \in IniSamples :
        fs' = [fs EXCEPT !.files = @ \cup {"project.ini"}, !.ini = i]
    /\ UNCHANGED <<project, result, deps, discoveryVars, versionVars>>

RemoveIni ==
    /\ PathExists(fs, "project.ini")
    /\ fs' = [fs EXCEPT !.files = @ \ {"project.ini"}, !.ini = EmptyIni]
    /\ UNCHANGED <<project, result, deps, discoveryVars, versionVars>>

WriteVersion ==
    /\ fs.exists
    /\ \E v \in VersionSamples :
        fs' = [fs EXCEPT !.files = @ \cup {"VERSION.txt"}, !.version_txt = v]
    /\ UNCHANGED <<project, result, deps, discoveryVars, versionVars>>

RemoveVersion ==
    /\ PathExists(fs, "VERSION.txt")
    /\ fs' = [fs EXCEPT !.files = @ \ {"VERSION.txt"}, !.version_txt = <<>>]
    /\ UNCHANGED <<project, result, deps, discoveryVars, versionVars>>

\* create an SCM marker; a new git tree is clean
AddMarker ==
    /\ fs.exists
    /\ \E m \in ScmMarkers \ fs.files :
        fs' = [fs EXCEPT !.files = @ \cup {m}]
    /\ UNCHANGED <<project, result, deps, discoveryVars, versionVars>>

RemoveMarker ==
    /\ \E m \in ScmMarkers \cap fs.files :
        fs' = [fs EXCEPT !.files = @ \ {m},
                         !.dirty = IF m = ".git" THEN FALSE ELSE @]
    /\ UNCHANGED <<project, result, deps, discoveryVars, versionVars>>

\* edit or commit in the git working tree
TouchTree ==
    /\ PathExists(fs, ".git")
    /\ fs' = [fs EXCEPT !.dirty = ~@]
    /\ UNCHANGED <<project, result, deps, discoveryVars, versionVars>>

WriteManifest ==
    /\ fs.exists
    /\ \E i \in 1..Len(locations), m \in ManifestSamples :
        fs' = [fs EXCEPT !.manifests =
                 [l \in DOMAIN @ \cup {locations[i]} |->
                    IF l = locations[i] THEN m ELSE @[l]]]
    /\ UNCHANGED <<project, result, deps, discoveryVars, versionVars>>

RemoveManifest ==
    /\ \E l \in DOMAIN fs.manifests :
        fs' = [fs EXCEPT !.manifests = [k \in DOMAIN @ \ {l} |-> @[k]]]
    /\ UNCHANGED <<project, result, deps, discoveryVars, versionVars>>

(***************************************************************************)
(* Operations on the Project.                                              *)
(***************************************************************************)
Construct ==
    /\ project' = Project__init__(ProjectName, fs)
    /\ result' = None
    /\ deps' = None
    /\ UNCHANGED <<fs, discoveryVars, versionVars>>

Load ==
    /\ \E include_disk \in BOOLEAN :
        LET r == Project_load(project, fs, include_disk)
        IN /\ project' = r[2]
           /\ result' = Some(r[1])
    /\ UNCHANGED <<fs, deps, discoveryVars, versionVars>>

GetDependencies ==
    /\ deps' = Some(get_dependencies(project, fs))
    /\ UNCHANGED <<fs, project, result, discoveryVars, versionVars>>

InitProjectVars ==
    /\ fs = EmptyDir
    /\ project = Project__init__(ProjectName, fs)
    /\ result = None
    /\ deps = None

InitDiscoveryVars ==
    /\ tree = [n \in Names |-> NoEntry]
    /\ call = NoCall
    /\ returned = <<>>

InitVersionVars ==
    /\ version = Version__init__(V123)
    /\ bumped = None
    /\ raised = FALSE

InitProject == InitProjectVars /\ InitDiscoveryVars /\ InitVersionVars

(***************************************************************************)
(* SpecProject: a Project over a directory whose project.ini and           *)
(* VERSION.txt come and go.                                                *)
(***************************************************************************)
NextProject ==
    \/ RemoveRoot \/ CreateRoot
    \/ WriteIni \/ RemoveIni
    \/ WriteVersion \/ RemoveVersion
    \/ Construct
    \/ Load

SpecProject == InitProject /\ [][NextProject]_vars

(***************************************************************************)
(* SpecScm: a Project over a directory whose SCM markers and working tree  *)
(* change.                                                                 *)
(***************************************************************************)
NextScm ==
    \/ RemoveRoot \/ CreateRoot
    \/ AddMarker \/ RemoveMarker \/ TouchTree
    \/ Construct
    \/ Load

SpecScm == InitProject /\ [][NextScm]_vars

(***************************************************************************)
(* SpecDeps: a Project over a directory whose dependency manifests change. *)
(***************************************************************************)
NextDeps ==
    \/ RemoveRoot \/ CreateRoot
    \/ WriteManifest \/ RemoveManifest
    \/ Construct
    \/ GetDependencies

SpecDeps == InitProject /\ [][NextDeps]_vars

(***************************************************************************)
(* SpecDiscovery: the scanned path changes and the discovery functions are *)
(* called on it.  call and returned describe the last call made on the     *)
(* path as it is now: a change of the path discards them.                  *)
(***************************************************************************)
PutEntry ==
    /\ \E n \in Names, e \in {FileEntry} \cup {DirEntry(d) : d \in DirSamples} :
        /\ tree[n] # e
        /\ tree' = [tree EXCEPT ![n] = e]
    /\ call' = NoCall
    /\ returned' = <<>>
    /\ UNCHANGED <<projectVars, versionVars>>

RemoveEntry ==
    /\ \E n \in Names :
        /\ tree[n] # NoEntry
        /\ tree' = [tree EXCEPT ![n] = NoEntry]
    /\ call' = NoCall
    /\ returned' = <<>>
    /\ UNCHANGED <<projectVars, versionVars>>

GetProjects ==
    /\ \E entries \in Listings(tree), criteria \in CriteriaSamples,
          show_all \in BOOLEAN :
        /\ call' = [op |-> "get_projects", entries |-> entries,
                    criteria |-> criteria, show_all |-> show_all]
        /\ returned' = get_projects(tree, entries, criteria, FALSE, show_all)
    /\ UNCHANGED <<tree, projectVars, versionVars>>

GetProjectClients ==
    /\ \E entries \in Listings(tree) :
        /\ call' = [op |-> "get_project_clients", entries |-> entries]
        /\ returned' = get_project_clients(tree, entries)
    /\ UNCHANGED <<tree, projectVars, versionVars>>

GetProjectStatuses ==
    /\ \E entries \in Listings(tree) :
        /\ call' = [op |-> "get_project_statuses", entries |-> entries]
        /\ returned' = get_project_statuses(tree, entries)
    /\ UNCHANGED <<tree, projectVars, versionVars>>

GetProjectTypes ==
    /\ \E entries \in Listings(tree) :
        /\ call' = [op |-> "get_project_types", entries |-> entries]
        /\ returned' = get_project_types(tree, entries)
    /\ UNCHANGED <<tree, projectVars, versionVars>>

InitDiscovery == InitProjectVars /\ InitDiscoveryVars /\ InitVersionVars

NextDiscovery ==
    \/ PutEntry \/ RemoveEntry
    \/ GetProjects
    \/ GetProjectClients \/ GetProjectStatuses \/ GetProjectTypes

SpecDiscovery == InitDiscovery /\ [][NextDiscovery]_vars

(***************************************************************************)
(* SpecVersion: a Version constructed from a valid string and bumped any   *)
(* number of times.                                                        *)
(***************************************************************************)
InitVersion ==
    /\ InitProjectVars
    /\ InitDiscoveryVars
    /\ \E v \in InitialVersions : version = Version__init__(v)
    /\ bumped = None
    /\ raised = FALSE

Bump ==
    /\ \E major, minor, patch \in BOOLEAN,
          status \in StatusSamples, build \in BuildSamples :
        LET r == Version_bump(version, major, minor, patch, status, build)
        IN /\ Len(r[2]._current) <= MaxLen
           /\ version' = r[2]
           /\ raised' = r[1]
           /\ bumped' = Some([major |-> major, minor |-> minor,
                              patch |-> patch, status |-> status,
                              build |-> build])
    /\ UNCHANGED <<projectVars, discoveryVars>>

NextVersion == Bump

SpecVersion == InitVersion /\ [][NextVersion]_vars

(***************************************************************************)
(* Claims about Project.load                                               *)
(***************************************************************************)
ConfigPresent(d) == PathExists(d, "project.ini")

C6_ConfigExistsAtLoad ==
    [][Load => project'.config_exists = ConfigPresent(fs)]_vars

\* C6 amended: config_exists tells whether project.ini was present when the
\* Project was constructed; load() leaves it as it is, whether or not it
\* succeeds.
C6_ConfigExistsAtConstruction ==
    [][/\ Construct => project'.config_exists = ConfigPresent(fs)
       /\ Load => project'.config_exists = project.config_exists]_vars

\* a successful load() that found no project.ini (nothing of any sample is
\* set) on a Project constructed while project.ini was there
C6_Witness ==
    /\ result = Some(TRUE)
    /\ project.config_exists
    /\ project.client = None /\ project.business = None
    /\ project.status = "unknown" /\ project.type = "project"

\* no configuration has reached the Project: constructed without project.ini
\* and still holding the defaults
Unconfigured(p) ==
    /\ ~p.config_exists
    /\ p.status = "unknown"
    /\ p.type = "project"
    /\ p.client = None /\ p.business = None

\* C7 as stated: after load() of an existing directory without project.ini,
\* config_exists is false and status, type and version are the defaults,
\* whatever other files the directory holds.
C7_DefaultsWithoutConfig ==
    [][(Load /\ fs.exists /\ ~ConfigPresent(fs) /\ Unconfigured(project))
        => /\ Unconfigured(project')
           /\ project'.version = "0.1.0-d"]_vars

\* C7 amended: the same, with version = "0.1.0-d" only when the directory
\* holds no VERSION.txt; with a VERSION.txt, version is its trimmed content.
C7_DefaultsWithoutConfigOrVersion ==
    [][(Load /\ fs.exists /\ ~ConfigPresent(fs) /\ Unconfigured(project))
        => /\ Unconfigured(project')
           /\ (~PathExists(fs, "VERSION.txt")
                 => project'.version = "0.1.0-d")
           /\ (PathExists(fs, "VERSION.txt")
                 => project'.version = Strip(fs.version_txt))]_vars

\* a loaded Project of a directory without project.ini holding the defaults
C7_Witness ==
    /\ result = Some(TRUE)
    /\ Unconfigured(project)
    /\ project.title = ProjectName
    /\ project.version = "0.1.0-d"
    /\ fs.exists /\ fs.files = {}

\* C8 as stated: after a load(), is_dirty is true exactly when that load
\* resolved scm = git and the working tree had uncommitted changes; it is not
\* true when scm resolved to hg, svn or None.
C8_DirtyIffGitDirty ==
    [][(Load /\ fs.exists)
        => (project'.is_dirty = Some(TRUE)
              <=> (project'.scm = "git" /\ fs.dirty))]_vars

\* C8 amended: a load() that resolves git sets is_dirty to whether the tree
\* had uncommitted changes; a load() that resolves hg, svn or None, or that
\* finds no root, leaves is_dirty as it was before the call; it is unset
\* after construction.
C8_DirtySetByGitOnly ==
    [][/\ Construct => project'.is_dirty = None
       /\ Load =>
            IF fs.exists /\ project'.scm = "git"
            THEN project'.is_dirty = Some(fs.dirty)
            ELSE project'.is_dirty = project.is_dirty]_vars

\* scm resolved to hg while is_dirty still holds the true of an earlier git
\* load
C8_Witness ==
    /\ result = Some(TRUE)
    /\ project.scm = "hg"
    /\ project.is_dirty = Some(TRUE)

\* C9: after a successful load(), org is the client's code ("Unidentified"
\* without a code) when a client section is attached, else the business's
\* code ("Internal" without a code) when a business section is attached, else
\* "Unknown".
C9_OrgPriority ==
    result = Some(TRUE) =>
        \/ /\ project.client # None
           /\ "code" \in DOMAIN project.client[1]
           /\ project.org = project.client[1].code
        \/ /\ project.client # None
           /\ "code" \notin DOMAIN project.client[1]
           /\ project.org = "Unidentified"
        \/ /\ project.client = None /\ project.business # None
           /\ "code" \in DOMAIN project.business[1]
           /\ project.org = project.business[1].code
        \/ /\ project.client = None /\ project.business # None
           /\ "code" \notin DOMAIN project.business[1]
           /\ project.org = "Internal"
        \/ /\ project.client = None /\ project.business = None
           /\ project.org = "Unknown"

\* a client section without a code wins over a business section with a code
C9_Witness ==
    /\ result = Some(TRUE)
    /\ project.client # None /\ project.business # None
    /\ "code" \in DOMAIN project.business[1]
    /\ project.org = "Unidentified"

(***************************************************************************)
(* Claims about Project.get_dependencies                                   *)
(***************************************************************************)
FirstManifest(d) ==
    LET present == {i \in 1..Len(locations) : ManifestExists(d, locations[i])}
    IN d.manifests[locations[CHOOSE i \in present :
                                \A j \in present : i <= j]]

\* C3: get_dependencies() returns one (environment, packages) entry per
\* environment, in the fixed order, of the first manifest that exists,
\* whenever one, two or three of the manifests exist, and an empty list when
\* none exists.
C3_SixEntriesOfFirstManifest ==
    [][GetDependencies =>
        IF \E i \in 1..Len(locations) : ManifestExists(fs, locations[i])
        THEN /\ Len(deps'[1]) = Len(ENVIRONMENTS)
             /\ \A i \in 1..Len(ENVIRONMENTS) :
                    /\ deps'[1][i][1] = ENVIRONMENTS[i]
                    /\ deps'[1][i][2] =
                         IF ENVIRONMENTS[i] \in DOMAIN FirstManifest(fs)
                         THEN FirstManifest(fs)[ENVIRONMENTS[i]] ELSE <<>>
        ELSE deps'[1] = <<>>]_vars

(***************************************************************************)
(* Claims about project discovery                                          *)
(***************************************************************************)
Directories == {n \in Names : tree[n].kind = "dir"}

HasConfig(n) == "project.ini" \in tree[n].dir.files

\* the Project that discovery builds for the directory n
Discovered(n) ==
    Project_load(Project__init__(n, tree[n].dir), tree[n].dir, FALSE)[2]

ReturnedNames == {returned[i].name : i \in DOMAIN returned}

\* C2: with a non-empty criteria mapping, get_projects returns exactly the
\* visible projects whose attributes equal the expected values of all the
\* listed fields, each of them once.
C2_CriteriaAllMatchOnce ==
    (call.op = "get_projects" /\ DOMAIN call.criteria # {}) =>
        LET want == {n \in Directories :
                        /\ (HasConfig(n) \/ call.show_all)
                        /\ \A f \in DOMAIN call.criteria :
                              Discovered(n)[f] = call.criteria[f]}
        IN /\ ReturnedNames = want
           /\ Len(returned) = Cardinality(want)

\* C4: without criteria, get_projects returns one Project per immediate
\* subdirectory that holds project.ini, or with show_all one per immediate
\* subdirectory (config_exists telling whether it holds project.ini); never
\* an entry that is no directory, and no name twice.
C4_VisibleDirectoriesOnce ==
    (call.op = "get_projects" /\ DOMAIN call.criteria = {}) =>
        LET want == {n \in Directories : HasConfig(n) \/ call.show_all}
        IN /\ ReturnedNames = want
           /\ Len(returned) = Cardinality(want)
           /\ \A i \in DOMAIN returned :
                 returned[i].config_exists = HasConfig(returned[i].name)

\* show_all returned a directory without project.ini next to one with it,
\* and left out a plain file
C4_Witness ==
    /\ call.op = "get_projects" /\ DOMAIN call.criteria = {}
    /\ call.show_all
    /\ \E i, j \in DOMAIN returned :
          returned[i].config_exists /\ ~returned[j].config_exists
    /\ \E n \in Names : tree[n].kind = "file"

AggregatedField ==
    [get_project_clients |-> "org", get_project_statuses |-> "status",
     get_project_types |-> "type"]

\* C5: get_project_clients, get_project_statuses and get_project_types return
\* a sorted sequence without duplicates whose values are those of org, status
\* and type of the projects that get_projects(path) returns.
C5_SortedDistinctValues ==
    call.op \in DOMAIN AggregatedField =>
        /\ \A i \in 1..(Len(returned) - 1) :
              StrLess(returned[i], returned[i + 1])
        /\ \A entries \in Listings(tree) :
              LET ps == get_projects(tree, entries, NoCriteria, FALSE, FALSE)
              IN {returned[i] : i \in DOMAIN returned} =
                 {ps[i][AggregatedField[call.op]] : i \in DOMAIN ps}

\* two values from three projects, listed in an order that is not sorted
C5_Witness ==
    /\ call.op = "get_project_clients"
    /\ Len(returned) = 2
    /\ Cardinality({n \in Directories : HasConfig(n)}) = 3
    /\ StrLess(Discovered(call.entries[3]).org, Discovered(call.entries[1]).org)

(***************************************************************************)
(* Claims about Version.bump                                               *)
(***************************************************************************)
\* the numbers after incrementing the first selected of major, minor, patch
BumpedNumbers(o, a) ==
    IF a.major THEN <<o.major + 1, 0, 0>>
    ELSE IF a.minor THEN <<o.major, o.minor + 1, 0>>
    ELSE IF a.patch THEN <<o.major, o.minor, o.patch + 1>>
    ELSE <<o.major, o.minor, o.patch>>

\* C10: every bump() changes the version held before the call: the first
\* selected of major, minor, patch is incremented and the lower numbers reset
\* (no change when none is selected); the prerelease is the status argument
\* when given and else the one held before, and the build likewise.
C10_BumpFromHeldVersion ==
    [][Bump =>
        LET a == bumped'[1]
            o == version.object
            n == BumpedNumbers(o, a)
        IN /\ ~raised'
           /\ version'.object.major = n[1]
           /\ version'.object.minor = n[2]
           /\ version'.object.patch = n[3]
           /\ version'.object.prerelease =
                 IF a.status # <<>> THEN a.status ELSE o.prerelease
           /\ version'.object.build =
                 IF a.build # <<>> THEN a.build ELSE o.build
           /\ parse_version_info(to_string(version')) = version'.object]_vars
====
